---- MODULE Spec2Model ----
(***************************************************************************)
(* Stage two of the LMS ETL pipeline (src/src/s3_to_rds_lambda.py): the    *)
(* CSV batch read from S3 is coerced to the destination table's schema,    *)
(* its datetime columns are normalised, and the batch is upserted into     *)
(* PostgreSQL inside one transaction.                                      *)
(*                                                                         *)
(* Text is a sequence of one-character strings, so that str.replace, the   *)
(* numeric parse and the strptime layout are computed character by         *)
(* character.  A DataFrame is a function from column name to a sequence of *)
(* cells; a cell is a record [kind, text, num].                            *)
(*                                                                         *)
(* Library semantics are those of pandas 1.x / 2.x (no copy-on-write: the  *)
(* chained inplace replace of line 55 writes through to the frame) and of  *)
(* PostgreSQL's INSERT ... ON CONFLICT ... DO UPDATE, executed once per    *)
(* record by the DBAPI executemany.                                        *)
(***************************************************************************)
EXTENDS Integers, Sequences, FiniteSets, TLC

VARIABLES
    csv,            \* the S3 object: column name -> sequence of raw CSV fields
    ddl,            \* the destination table's definition in the live database
    guess_format,   \* pandas build: to_datetime without format= infers one layout
    pc,             \* position of lambda_handler
    df,             \* the DataFrame the handler mutates in place
    schema_info,    \* result of get_table_schema
    table,          \* rows of the destination table, in physical order
    runs,           \* invocations of lambda_handler started so far
    stages,         \* stages of the current run, each with its outcome
    prepassed,      \* the frame as it stood after the loop of lines 41-43
    table_at_start, \* the destination table when the current run started
    upsert_log,     \* what the last call of upsert_dataframe_to_postgres did
    prev_success    \* the last successful upsert before the current run

vars == <<csv, ddl, guess_format, pc, df, schema_info, table, runs, stages,
          prepassed, table_at_start, upsert_log, prev_success>>

\* ------------------------------------------------------------------ bounds
MaxRows == 2
MaxCells == 2
MaxRuns == 2

\* -------------------------------------------------------------------- text
Digits == {"0", "1", "2", "3", "4", "5", "6", "7", "8", "9"}

DigitVal(c) ==
    CASE c = "0" -> 0 [] c = "1" -> 1 [] c = "2" -> 2 [] c = "3" -> 3
      [] c = "4" -> 4 [] c = "5" -> 5 [] c = "6" -> 6 [] c = "7" -> 7
      [] c = "8" -> 8 [] c = "9" -> 9

DigitChar(n) ==
    CASE n = 0 -> "0" [] n = 1 -> "1" [] n = 2 -> "2" [] n = 3 -> "3"
      [] n = 4 -> "4" [] n = 5 -> "5" [] n = 6 -> "6" [] n = 7 -> "7"
      [] n = 8 -> "8" [] n = 9 -> "9"

AllDigits(t) == \A i \in 1..Len(t) : t[i] \in Digits

StartsWith(s, p) == Len(p) <= Len(s) /\ SubSeq(s, 1, Len(p)) = p

EndsWith(s, p) == Len(p) <= Len(s) /\ SubSeq(s, Len(s) - Len(p) + 1, Len(s)) = p

\* Python's str.replace(old, new): every non-overlapping occurrence, left to right.
RECURSIVE Replace(_, _, _)
Replace(s, old, new) ==
    IF s = <<>> THEN <<>>
    ELSE IF StartsWith(s, old)
         THEN new \o Replace(SubSeq(s, Len(old) + 1, Len(s)), old, new)
         ELSE <<Head(s)>> \o Replace(Tail(s), old, new)

RECURSIVE ParseInt(_)
ParseInt(t) ==
    IF t = <<>> THEN 0 ELSE 10 * ParseInt(SubSeq(t, 1, Len(t) - 1)) + DigitVal(t[Len(t)])

RECURSIVE IntToText(_)
IntToText(n) ==
    IF n < 10 THEN <<DigitChar(n)>> ELSE IntToText(n \div 10) \o <<DigitChar(n % 10)>>

DotAt(t) == IF \E i \in 1..Len(t) : t[i] = "." THEN CHOOSE i \in 1..Len(t) : t[i] = "." ELSE 0

IsIntText(t) == t # <<>> /\ AllDigits(t)

\* digits "." digits, the decimal notation the CSV parser and to_numeric accept
IsDecimalText(t) ==
    LET d == DotAt(t) IN
    /\ d > 1 /\ d < Len(t)
    /\ AllDigits(SubSeq(t, 1, d - 1))
    /\ AllDigits(SubSeq(t, d + 1, Len(t)))

IsNumText(t) == IsIntText(t) \/ IsDecimalText(t)

RECURSIVE StripTrailingZeros(_)
StripTrailingZeros(t) ==
    IF Len(t) > 1 /\ t[Len(t)] = "0" THEN StripTrailingZeros(SubSeq(t, 1, Len(t) - 1)) ELSE t

\* str(float(t)) for a field in decimal notation: "42" -> "42.0", "3.50" -> "3.5"
FloatStr(t) ==
    IF IsIntText(t) THEN t \o <<".", "0">>
    ELSE LET d == DotAt(t) IN
         SubSeq(t, 1, d) \o StripTrailingZeros(SubSeq(t, d + 1, Len(t)))

T_nan == <<"n", "a", "n">>
T_space == <<" ">>
T_dot0 == <<".", "0">>

\* ------------------------------------------------------------------- cells
Cell(k, t, n) == [kind |-> k, text |-> t, num |-> n]
StrCell(t) == Cell("str", t, 0)
FloatCell(t) == Cell("float", t, 0)       \* text is Python's str(x); NaN is "nan"
IntCell(n) == Cell("int", <<>>, n)
BoolCell(b) == Cell("bool", <<>>, IF b THEN 1 ELSE 0)
Instant(t) == Cell("ts_utc", t, 0)    \* text is yyyy-mm-ddThh:mm:ss, tagged UTC
NULL == Cell("null", <<>>, 0)         \* None / NaT / <NA>
NaN == FloatCell(T_nan)

IsMissing(raw) == raw = <<>>

\* pd.read_csv's per-column type inference: int64 when every field is an
\* integer, float64 when every non-empty field is a number (an empty field is
\* NaN), object otherwise (text fields, NaN for the empty ones).
ReadCsvColumn(col) ==
    LET present == {i \in 1..Len(col) : ~IsMissing(col[i])} IN
    IF present = 1..Len(col) /\ \A i \in present : IsIntText(col[i])
    THEN [i \in 1..Len(col) |-> IntCell(ParseInt(col[i]))]
    ELSE IF \A i \in present : IsNumText(col[i])
    THEN [i \in 1..Len(col) |-> IF IsMissing(col[i]) THEN NaN ELSE FloatCell(FloatStr(col[i]))]
    ELSE [i \in 1..Len(col) |-> IF IsMissing(col[i]) THEN NaN ELSE StrCell(col[i])]

retrieve_data_from_s3(object) == [c \in DOMAIN object |-> ReadCsvColumn(object[c])]

\* ----------------------------------------------- convert_dataframe_dtypes
\* line 43: str(x).replace('.0', '') if isinstance(x, float) else x
PrePassCell(x) == IF x.kind = "float" THEN StrCell(Replace(x.text, T_dot0, <<>>)) ELSE x

PrePass(frame) == [c \in DOMAIN frame |-> [i \in 1..Len(frame[c]) |-> PrePassCell(frame[c][i])]]

IntegerFamily == {"INTEGER", "BIGINT"}
TextFamily == {"VARCHAR", "TEXT"}
BooleanFamily == {"BOOLEAN"}
DateFamily == {"DATE", "TIMESTAMP"}
JsonFamily == {"JSON"}
OtherFamily == {"NUMERIC"}

\* pd.to_numeric(errors='coerce') of one cell: [nan, int, frac]
ToNumeric(x) ==
    IF x.kind \in {"int", "bool"} THEN [nan |-> FALSE, int |-> x.num, frac |-> <<>>]
    ELSE IF x.kind = "str" /\ IsIntText(x.text)
    THEN [nan |-> FALSE, int |-> ParseInt(x.text), frac |-> <<>>]
    ELSE IF x.kind = "str" /\ IsDecimalText(x.text)
    THEN LET d == DotAt(x.text) IN
         [nan |-> FALSE, int |-> ParseInt(SubSeq(x.text, 1, d - 1)),
          frac |-> SubSeq(x.text, d + 1, Len(x.text))]
    ELSE [nan |-> TRUE, int |-> 0, frac |-> <<>>]

IsIntegral(v) == v.nan \/ \A i \in 1..Len(v.frac) : v.frac[i] = "0"

\* lines 49-51: astype('Int64') refuses a float that is not a whole number
\* ("cannot safely cast non-equivalent float64 to int64"); NaN becomes <NA>,
\* which the replace of line 51 turns into None.
ConvertInteger(col) ==
    LET nums == [i \in 1..Len(col) |-> ToNumeric(col[i])] IN
    IF \A i \in 1..Len(col) : IsIntegral(nums[i])
    THEN [ok |-> TRUE,
          col |-> [i \in 1..Len(col) |-> IF nums[i].nan THEN NULL ELSE IntCell(nums[i].int)]]
    ELSE [ok |-> FALSE, col |-> col]

\* astype(str) of one cell
AsStr(x) ==
    CASE x.kind = "str" -> x
      [] x.kind = "int" -> StrCell(IntToText(x.num))
      [] x.kind = "float" -> StrCell(x.text)
      [] x.kind = "bool" -> StrCell(IF x.num = 1 THEN <<"T", "r", "u", "e">>
                                            ELSE <<"F", "a", "l", "s", "e">>)
      [] x.kind = "null" -> StrCell(<<"N", "o", "n", "e">>)
      [] OTHER -> StrCell(x.text)

\* lines 54-55
ConvertText(col) ==
    [ok |-> TRUE,
     col |-> [i \in 1..Len(col) |->
                 IF AsStr(col[i]) = StrCell(T_nan) THEN StrCell(T_space) ELSE AsStr(col[i])]]

\* line 57: astype(bool) is Python truthiness of each cell
ConvertBoolean(col) ==
    [ok |-> TRUE,
     col |-> [i \in 1..Len(col) |->
                 CASE col[i].kind = "str" -> BoolCell(col[i].text # <<>>)
                   [] col[i].kind \in {"int", "bool"} -> BoolCell(col[i].num # 0)
                   [] OTHER -> BoolCell(TRUE)]]

\* ---- datetime layouts
TwoDigits(t, i, lo, hi) ==
    /\ t[i] \in Digits /\ t[i + 1] \in Digits
    /\ ParseInt(SubSeq(t, i, i + 1)) >= lo /\ ParseInt(SubSeq(t, i, i + 1)) <= hi

TimeOfDay(t) ==
    /\ t[11] = " " /\ TwoDigits(t, 12, 0, 23)
    /\ t[14] = ":" /\ TwoDigits(t, 15, 0, 59)
    /\ t[17] = ":" /\ TwoDigits(t, 18, 0, 59)

\* '%m-%d-%Y %H:%M:%S'
MatchesFixed(t) ==
    /\ Len(t) = 19
    /\ TwoDigits(t, 1, 1, 12) /\ t[3] = "-"
    /\ TwoDigits(t, 4, 1, 31) /\ t[6] = "-"
    /\ AllDigits(SubSeq(t, 7, 10))
    /\ TimeOfDay(t)

\* '%Y-%m-%d %H:%M:%S'
MatchesIso(t) ==
    /\ Len(t) = 19
    /\ AllDigits(SubSeq(t, 1, 4)) /\ t[5] = "-"
    /\ TwoDigits(t, 6, 1, 12) /\ t[8] = "-"
    /\ TwoDigits(t, 9, 1, 31)
    /\ TimeOfDay(t)

FixedInstant(t) ==
    Instant(SubSeq(t, 7, 10) \o <<"-">> \o SubSeq(t, 1, 2) \o <<"-">> \o SubSeq(t, 4, 5)
            \o <<"T">> \o SubSeq(t, 12, 19))

IsoInstant(t) == Instant(SubSeq(t, 1, 10) \o <<"T">> \o SubSeq(t, 12, 19))

\* the first element format inference looks at: None, NaN and the NaT strings
\* ('nan' among them) are skipped
FirstNonNull(col) ==
    LET idx == {i \in 1..Len(col) : col[i].kind = "str" /\ col[i].text # T_nan} IN
    IF idx = {} THEN <<>>
    ELSE col[CHOOSE i \in idx : \A j \in idx : i <= j].text

\* pd.to_datetime(errors='coerce') with no format: each element goes through
\* the generic parser, unless the build infers one layout from the first
\* element and then holds every element to it.
GenericParse(col, guess) ==
    LET first == FirstNonNull(col)
        fixedOnly == guess /\ MatchesFixed(first)
        isoOnly == guess /\ MatchesIso(first)
    IN [i \in 1..Len(col) |->
          IF col[i].kind # "str" THEN NULL
          ELSE IF MatchesFixed(col[i].text) /\ ~isoOnly THEN FixedInstant(col[i].text)
          ELSE IF MatchesIso(col[i].text) /\ ~fixedOnly THEN IsoInstant(col[i].text)
          ELSE NULL]

\* line 59 (NaT stays NaT under tz_localize)
ConvertDate(col, guess) == [ok |-> TRUE, col |-> GenericParse(col, guess)]

Quote == "\""
Backslash == "\\"

RECURSIVE JsonEscape(_)
JsonEscape(t) ==
    IF t = <<>> THEN <<>>
    ELSE IF Head(t) \in {Quote, Backslash}
         THEN <<Backslash, Head(t)>> \o JsonEscape(Tail(t))
         ELSE <<Head(t)>> \o JsonEscape(Tail(t))

\* json.dumps of a scalar
JsonDumps(x) ==
    CASE x.kind = "str" -> StrCell(<<Quote>> \o JsonEscape(x.text) \o <<Quote>>)
      [] x.kind = "int" -> StrCell(IntToText(x.num))
      [] x.kind = "bool" -> StrCell(IF x.num = 1 THEN <<"t", "r", "u", "e">>
                                             ELSE <<"f", "a", "l", "s", "e">>)
      [] OTHER -> StrCell(x.text)

\* pd.isna of a scalar
IsNa(x) == x.kind = "null" \/ x = NaN

\* line 61
ConvertJson(col) ==
    [ok |-> TRUE,
     col |-> [i \in 1..Len(col) |-> IF IsNa(col[i]) THEN NULL ELSE JsonDumps(col[i])]]

\* lines 48-61: the branch taken for one declared type
ConvertColumn(col, dtype, guess) ==
    IF dtype \in IntegerFamily THEN ConvertInteger(col)
    ELSE IF dtype \in TextFamily THEN ConvertText(col)
    ELSE IF dtype \in BooleanFamily THEN ConvertBoolean(col)
    ELSE IF dtype \in DateFamily THEN ConvertDate(col, guess)
    ELSE IF dtype \in JsonFamily THEN ConvertJson(col)
    ELSE [ok |-> TRUE, col |-> col]

\* lines 45-65: the schema's columns in catalog order; the first column whose
\* conversion raises aborts the pass and leaves the earlier columns converted.
RECURSIVE ConvertLoop(_, _, _, _)
ConvertLoop(frame, schema, order, guess) ==
    IF order = <<>> THEN [ok |-> TRUE, df |-> frame]
    ELSE LET c == Head(order) IN
         IF c \notin DOMAIN frame \/ c \notin DOMAIN schema
         THEN ConvertLoop(frame, schema, Tail(order), guess)
         ELSE LET r == ConvertColumn(frame[c], schema[c], guess) IN
              IF r.ok
              THEN ConvertLoop([frame EXCEPT ![c] = r.col], schema, Tail(order), guess)
              ELSE [ok |-> FALSE, df |-> frame]

convert_dataframe_dtypes(frame, schema, order, guess) ==
    LET r == ConvertLoop(PrePass(frame), schema, order, guess) IN
    [ok |-> r.ok, df |-> r.df, pre |-> PrePass(frame)]

\* ------------------------------------------------- parse_datetime_columns
\* lines 120-126 for one column: a column that is already datetime64[ns, UTC]
\* is returned by to_datetime as it is (format= plays no part) and tz_convert
\* leaves it in UTC; any other column is matched against the fixed layout.
ParseDatetimeColumn(col) ==
    IF \A i \in 1..Len(col) : col[i].kind \in {"ts_utc", "null"}
    THEN col
    ELSE [i \in 1..Len(col) |->
            IF col[i].kind = "str" /\ MatchesFixed(col[i].text)
            THEN FixedInstant(col[i].text) ELSE NULL]

\* lines 118-130: df[column_name] of a column the frame lacks raises KeyError
RECURSIVE parse_datetime_columns(_, _)
parse_datetime_columns(frame, column_names) ==
    IF column_names = <<>> THEN [ok |-> TRUE, df |-> frame]
    ELSE LET c == Head(column_names) IN
         IF c \notin DOMAIN frame THEN [ok |-> FALSE, df |-> frame]
         ELSE parse_datetime_columns([frame EXCEPT ![c] = ParseDatetimeColumn(frame[c])],
                                     Tail(column_names))

\* --------------------------------------------- upsert_dataframe_to_postgres
UniqueKey == "lms_user_id"
DatetimeColumns ==
    <<"date_hired", "date_terminated", "date_edited", "date_added", "last_login_date">>
TableColumns(d) == {d.order[i] : i \in 1..Len(d.order)}

NoFrame == [c \in {} |-> <<>>]

NRows(frame) ==
    IF DOMAIN frame = {} THEN 0 ELSE Len(frame[CHOOSE c \in DOMAIN frame : TRUE])

\* df.to_dict(orient='records')
ToRecords(frame) == [i \in 1..NRows(frame) |-> [c \in DOMAIN frame |-> frame[c][i]]]

\* the tuple the INSERT proposes: columns the statement does not name take
\* their default
Proposed(rec, d) == [c \in TableColumns(d) |-> IF c \in DOMAIN rec THEN rec[c] ELSE NULL]

\* the database rejects a tuple with NULL in a NOT NULL column
Rejected(rec, d) == \E c \in d.not_null : Proposed(rec, d)[c] = NULL

\* a NULL key conflicts with no row
Conflicting(tbl, rec, unique_key) ==
    {i \in 1..Len(tbl) : rec[unique_key] # NULL /\ tbl[i][unique_key] = rec[unique_key]}

\* INSERT ... ON CONFLICT DO NOTHING: insert-or-ignore
InsertOnConflictDoNothing(tbl, rec, unique_key, d) ==
    IF Conflicting(tbl, rec, unique_key) = {} THEN Append(tbl, Proposed(rec, d)) ELSE tbl

\* lines 74-79, for one record: INSERT ... ON CONFLICT (unique_key) DO UPDATE
\* SET every statement column but the key = EXCLUDED.column
InsertOnConflict(tbl, rec, unique_key, d) ==
    LET hit == Conflicting(tbl, rec, unique_key) IN
    IF hit = {} THEN Append(tbl, Proposed(rec, d))
    ELSE LET i == CHOOSE j \in hit : TRUE IN
         [tbl EXCEPT ![i] = [c \in TableColumns(d) |->
                                IF c \in DOMAIN rec /\ c # unique_key
                                THEN rec[c] ELSE tbl[i][c]]]

\* line 81: executemany runs the statement once per record, in order, and
\* stops at the first record the database rejects
RECURSIVE ExecuteMany(_, _, _, _, _)
ExecuteMany(tbl, recs, k, unique_key, d) ==
    IF k > Len(recs) THEN [ok |-> TRUE, table |-> tbl, failed_at |-> 0]
    ELSE IF Rejected(recs[k], d) THEN [ok |-> FALSE, table |-> tbl, failed_at |-> k]
    ELSE ExecuteMany(InsertOnConflict(tbl, recs[k], unique_key, d), recs, k + 1,
                     unique_key, d)

\* autocommit: every record's write is kept, whatever happens after it
TransactionAutocommit(before, res) == res.table

\* line 80: connection.begin() commits when the block ends and rolls back
\* when it raises
Transaction(before, res) == IF res.ok THEN res.table ELSE before

upsert_dataframe_to_postgres(frame, tbl, unique_key, d) ==
    LET res == ExecuteMany(tbl, ToRecords(frame), 1, unique_key, d) IN
    [ok |-> res.ok, table |-> Transaction(tbl, res), failed_at |-> res.failed_at,
     touched |-> res.table # tbl]

\* line 142-143: the catalog's column name -> declared type
get_table_schema(d) == d.types

\* ---------------------------------------------------------- lambda_handler
\* an except clause that logs and carries on
AfterStageSwallow(ok, nxt) == nxt

\* lines 134 and 158: an exception in any stage leaves the try block
AfterStage(ok, nxt) == IF ok THEN nxt ELSE "except"

NoLog == [called |-> FALSE, ok |-> FALSE, before |-> <<>>, failed_at |-> 0,
          touched |-> FALSE, repeat |-> FALSE]
NoSuccess == [valid |-> FALSE, batch |-> <<>>, after |-> <<>>]

Stage(name, ok) == [name |-> name, ok |-> ok]

\* a scheduled invocation
Invoke ==
    /\ pc \in {"idle", "returned_ok", "returned_error", "raised"}
    /\ runs < MaxRuns
    /\ runs' = runs + 1
    /\ pc' = "retrieve"
    /\ df' = NoFrame
    /\ schema_info' = NoFrame
    /\ prepassed' = NoFrame
    /\ stages' = <<>>
    /\ table_at_start' = table
    /\ upsert_log' = NoLog
    /\ UNCHANGED <<csv, ddl, guess_format, table, prev_success>>

\* line 136; the S3 read may raise
RetrieveData ==
    /\ pc = "retrieve"
    /\ \E ok \in BOOLEAN :
        /\ df' = IF ok THEN retrieve_data_from_s3(csv) ELSE df
        /\ pc' = AfterStage(ok, "schema")
        /\ stages' = Append(stages, Stage("retrieve", ok))
    /\ UNCHANGED <<csv, ddl, guess_format, schema_info, table, runs, prepassed,
                   table_at_start, upsert_log, prev_success>>

\* lines 139-142; the connection or the catalog query may raise
GetTableSchema ==
    /\ pc = "schema"
    /\ \E ok \in BOOLEAN :
        /\ schema_info' = IF ok THEN get_table_schema(ddl) ELSE schema_info
        /\ pc' = AfterStage(ok, "convert")
        /\ stages' = Append(stages, Stage("schema", ok))
    /\ UNCHANGED <<csv, ddl, guess_format, df, table, runs, prepassed,
                   table_at_start, upsert_log, prev_success>>

\* line 145
ConvertDtypes ==
    /\ pc = "convert"
    /\ LET r == convert_dataframe_dtypes(df, schema_info, ddl.order, guess_format) IN
        /\ df' = r.df
        /\ prepassed' = r.pre
        /\ pc' = AfterStage(r.ok, "parse")
        /\ stages' = Append(stages, Stage("convert", r.ok))
    /\ UNCHANGED <<csv, ddl, guess_format, schema_info, table, runs,
                   table_at_start, upsert_log, prev_success>>

\* line 148
ParseDatetimes ==
    /\ pc = "parse"
    /\ LET r == parse_datetime_columns(df, DatetimeColumns) IN
        /\ df' = r.df
        /\ pc' = AfterStage(r.ok, "upsert")
        /\ stages' = Append(stages, Stage("parse", r.ok))
    /\ UNCHANGED <<csv, ddl, guess_format, schema_info, table, runs, prepassed,
                   table_at_start, upsert_log, prev_success>>

\* lines 150-157
Upsert ==
    /\ pc = "upsert"
    /\ LET r == upsert_dataframe_to_postgres(df, table, UniqueKey, ddl)
           batch == ToRecords(df)
       IN
        /\ table' = r.table
        /\ pc' = AfterStage(r.ok, "returned_ok")
        /\ stages' = Append(stages, Stage("upsert", r.ok))
        /\ upsert_log' = [called |-> TRUE, ok |-> r.ok, before |-> table,
                          failed_at |-> r.failed_at, touched |-> r.touched,
                          repeat |-> /\ prev_success.valid
                                     /\ prev_success.batch = batch
                                     /\ prev_success.after = table]
        /\ prev_success' = IF r.ok THEN [valid |-> TRUE, batch |-> batch, after |-> r.table]
                           ELSE prev_success
    /\ UNCHANGED <<csv, ddl, guess_format, df, schema_info, runs, prepassed,
                   table_at_start>>

\* lines 158-164: the notification is sent, and the error body returned,
\* unless publishing raises
ExceptNotify ==
    /\ pc = "except"
    /\ \E sent \in BOOLEAN : pc' = IF sent THEN "returned_error" ELSE "raised"
    /\ UNCHANGED <<csv, ddl, guess_format, df, schema_info, table, runs, stages,
                   prepassed, table_at_start, upsert_log, prev_success>>

\* ------------------------------------------------------------ the batches
S_1 == <<"1">>
S_2 == <<"2">>
S_1_5 == <<"1", ".", "5">>
S_42 == <<"4", "2">>
S_10_05 == <<"1", "0", ".", "0", "5">>
S_3_5 == <<"3", ".", "5">>
S_abc == <<"a", "b", "c">>
S_fixed == <<"0", "3", "-", "1", "5", "-", "2", "0", "2", "4", " ",
             "1", "0", ":", "3", "0", ":", "0", "0">>
S_iso == <<"2", "0", "2", "4", "-", "0", "3", "-", "1", "5", " ",
           "1", "0", ":", "3", "0", ":", "0", "0">>
S_not_a_date == <<"n", "o", "t", "-", "a", "-", "d", "a", "t", "e">>
S_2020 == <<"2", "0", "2", "0", "-", "0", "1", "-", "0", "1", "T",
            "0", "0", ":", "0", "0", ":", "0", "0">>
S_x == <<"x">>

NumTextFields == {<<>>, S_42, S_10_05, S_3_5, S_abc}
KeyFields == {<<>>, S_1, S_2, S_1_5}
DateFields == {<<>>, S_fixed, S_iso, S_not_a_date}
RosterDateFields == {S_fixed, S_not_a_date}

KeyTypes == <<"VARCHAR", "INTEGER">>

AllMissing(n) == [i \in 1..n |-> <<>>]
Numbered(n) == [i \in 1..n |-> IntToText(i)]

DatetimeNames(k) == {DatetimeColumns[i] : i \in 1..k}

\* the roster export: the key, date_hired, the other datetime columns (empty
\* in every row; last_login_date may be absent from the header) and whatever
\* further columns the export carries
RosterCsv(keys, dates, with_login, more) ==
    [c \in {UniqueKey} \cup DatetimeNames(IF with_login THEN 5 ELSE 4) \cup DOMAIN more |->
        IF c = UniqueKey THEN keys
        ELSE IF c = "date_hired" THEN dates
        ELSE IF c \in DOMAIN more THEN more[c]
        ELSE AllMissing(Len(keys))]

\* the destination table: the note column is kept by another process and is
\* in no export
RosterDdl(key_type, date_type, code_type, not_null) ==
    [order |-> <<UniqueKey>> \o DatetimeColumns \o <<"dept_code", "note">>,
     types |-> [c \in {UniqueKey, "dept_code", "note"} \cup DatetimeNames(5) |->
                  IF c = UniqueKey THEN key_type
                  ELSE IF c = "date_hired" THEN date_type
                  ELSE IF c = "dept_code" THEN code_type
                  ELSE IF c = "note" THEN "TEXT"
                  ELSE "TIMESTAMP"],
     not_null |-> not_null]

\* a row written before the pipeline ran
ExistingRow(d) ==
    [c \in TableColumns(d) |->
        IF c = UniqueKey
        THEN (IF d.types[UniqueKey] \in IntegerFamily THEN IntCell(1) ELSE StrCell(S_1))
        ELSE IF c = "date_hired" THEN Instant(S_2020)
        ELSE IF c = "note" THEN StrCell(S_x)
        ELSE NULL]

Idle ==
    /\ pc = "idle"
    /\ df = NoFrame
    /\ schema_info = NoFrame
    /\ prepassed = NoFrame
    /\ runs = 0
    /\ stages = <<>>
    /\ table_at_start = table
    /\ upsert_log = NoLog
    /\ prev_success = NoSuccess

\* Rosters against destination tables: the key is INTEGER or VARCHAR, the key
\* and date_hired may be NOT NULL (a text key is never NULL after coercion, so
\* its NOT NULL is left out), the table is empty or holds one row.
Init ==
    /\ \E n \in 1..MaxRows : \E keys \in [1..n -> KeyFields] :
       \E dates \in [1..n -> RosterDateFields] : \E with_login \in BOOLEAN :
          csv = RosterCsv(keys, dates, with_login, NoFrame)
    /\ \E t \in 1..Len(KeyTypes) : \E not_null \in SUBSET {UniqueKey, "date_hired"} :
          /\ KeyTypes[t] = "VARCHAR" => UniqueKey \notin not_null
          /\ ddl = RosterDdl(KeyTypes[t], "TIMESTAMP", "TEXT", not_null)
    /\ guess_format = TRUE
    /\ table \in {<<>>, <<ExistingRow(ddl)>>}
    /\ Idle

\* One column at a time against every declared type: dept_code over numbers
\* and text, or date_hired over datetime layouts; either pandas build.
InitCoerce ==
    /\ \E n \in 1..MaxCells :
        \/ \E codes \in [1..n -> NumTextFields] :
           \E code_type \in {"INTEGER", "VARCHAR", "BOOLEAN", "JSON", "NUMERIC"} :
              /\ csv = RosterCsv(Numbered(n), AllMissing(n), TRUE, [dept_code |-> codes])
              /\ ddl = RosterDdl("INTEGER", "TIMESTAMP", code_type, {})
        \/ \E dates \in [1..n -> DateFields] :
           \E date_type \in {"TIMESTAMP", "VARCHAR", "NUMERIC"} :
              /\ csv = RosterCsv(Numbered(n), dates, TRUE, NoFrame)
              /\ ddl = RosterDdl("INTEGER", date_type, "TEXT", {})
    /\ guess_format \in BOOLEAN
    /\ table = <<>>
    /\ Idle

Next ==
    \/ Invoke
    \/ RetrieveData
    \/ GetTableSchema
    \/ ConvertDtypes
    \/ ParseDatetimes
    \/ Upsert
    \/ ExceptNotify

Spec == Init /\ [][Next]_vars

SpecCoerce == InitCoerce /\ [][Next]_vars

\* ------------------------------------------------------------- properties
Failed == pc \in {"except", "returned_error", "raised"}
StageOrder == <<"retrieve", "schema", "convert", "parse", "upsert">>
StageDone(k) == Len(stages) >= k
StageOk(k) == Len(stages) >= k /\ stages[k].ok
Original == retrieve_data_from_s3(csv)
Batch == ToRecords(df)
RowsWithKey(tbl, k) == {j \in 1..Len(tbl) : tbl[j][UniqueKey] = k}
BatchKeys == {Batch[i][UniqueKey] : i \in 1..Len(Batch)} \ {NULL}
LastRecord(k) ==
    Batch[CHOOSE i \in 1..Len(Batch) :
            /\ Batch[i][UniqueKey] = k
            /\ \A j \in 1..Len(Batch) : Batch[j][UniqueKey] = k => j <= i]

\* C1: when the database rejects a record of the batch, the call fails and the
\* destination table is exactly what it was before the call, the writes of
\* the records before the rejected one included.
UpsertAllOrNothing ==
    (upsert_log.called /\ upsert_log.failed_at > 0) =>
        /\ ~upsert_log.ok
        /\ Failed
        /\ table = upsert_log.before

\* a call in which record 2 was rejected after record 1 had been written
UpsertRolledBackAfterWrite ==
    /\ upsert_log.called
    /\ upsert_log.failed_at = 2
    /\ upsert_log.touched
    /\ table = upsert_log.before

\* C2: a successful upsert of the batch the previous successful upsert wrote,
\* against the table that upsert left, changes nothing.
UpsertIdempotent ==
    (upsert_log.called /\ upsert_log.ok /\ upsert_log.repeat) =>
        table = upsert_log.before

\* C3: after a successful upsert every non-NULL key of the batch has exactly
\* one row; its batch columns hold the values of the last record with that
\* key; a key that was present keeps its row (same place, columns outside the
\* batch untouched), a key that was absent gets a new row; rows of other keys
\* are as they were.
UpsertUpdatesInPlace ==
    (upsert_log.called /\ upsert_log.ok) =>
        LET before == upsert_log.before IN
        /\ \A k \in BatchKeys :
            /\ Cardinality(RowsWithKey(table, k)) = 1
            /\ LET j == CHOOSE r \in RowsWithKey(table, k) : TRUE IN
                /\ \A c \in DOMAIN LastRecord(k) : table[j][c] = LastRecord(k)[c]
                /\ IF RowsWithKey(before, k) # {}
                   THEN /\ RowsWithKey(before, k) = {j}
                        /\ \A c \in DOMAIN before[j] \ DOMAIN LastRecord(k) :
                              table[j][c] = before[j][c]
                   ELSE /\ j > Len(before)
                        /\ \A c \in DOMAIN table[j] \ DOMAIN LastRecord(k) :
                              table[j][c] = NULL
        /\ \A j \in 1..Len(before) :
              before[j][UniqueKey] \notin BatchKeys => table[j] = before[j]

\* one call that updated the row of a key already present, to other values,
\* and inserted the row of a new key
UpsertUpdatedAndInserted ==
    /\ upsert_log.called /\ upsert_log.ok
    /\ Len(upsert_log.before) = 1
    /\ Len(table) = 2
    /\ upsert_log.before[1][UniqueKey] \in BatchKeys
    /\ table[1]["date_hired"] # upsert_log.before[1]["date_hired"]
    /\ table[1]["note"] = StrCell(S_x)

\* C4: the stages of a run happen in the order retrieve, schema, convert,
\* parse, upsert; a stage is entered only after every earlier one succeeded;
\* a run in which a stage before the upsert failed has ended as failed, has
\* not called the upsert and has left the table as it was; a batch that
\* lacks a named datetime column never reaches the upsert.
HandlerStagesInOrder ==
    /\ Len(stages) <= Len(StageOrder)
    /\ \A i \in 1..Len(stages) : stages[i].name = StageOrder[i]
    /\ \A i \in 1..(Len(stages) - 1) : stages[i].ok
    /\ upsert_log.called <=> StageDone(5)
    /\ (\E i \in 1..Len(stages) : i < 5 /\ ~stages[i].ok) =>
          /\ Failed
          /\ ~upsert_log.called
          /\ table = table_at_start
    /\ (\E i \in 1..Len(DatetimeColumns) : DatetimeColumns[i] \notin DOMAIN csv) =>
          /\ ~upsert_log.called
          /\ StageDone(4) => ~stages[4].ok

\* a run against a table with rows that ended at a failed coercion
CoercionFailedRun ==
    /\ pc = "returned_error"
    /\ Len(stages) = 3 /\ ~stages[3].ok
    /\ table # <<>>

\* C10: when a record of the batch has no unique key, the run fails and
\* writes nothing.
MissingKeyIsFatal ==
    (\E i \in 1..Len(csv[UniqueKey]) : IsMissing(csv[UniqueKey][i])) =>
        /\ pc # "returned_ok"
        /\ table = table_at_start

\* C5: the pre-pass turns a float that renders as N.0 into N, leaves every
\* other float with all of its digits and its decimal point, and leaves every
\* cell that is not a float as it is.
PrePassOnlyStripsTrailingDot0 ==
    \A c \in DOMAIN prepassed : \A i \in 1..Len(prepassed[c]) :
        LET x == Original[c][i]
            y == prepassed[c][i]
        IN IF x.kind = "float" /\ x # NaN
           THEN y = StrCell(IF EndsWith(x.text, T_dot0)
                            THEN SubSeq(x.text, 1, Len(x.text) - 2) ELSE x.text)
           ELSE x.kind # "float" => y = x

IsWholeNumberField(raw) ==
    \/ IsIntText(raw)
    \/ IsDecimalText(raw) /\ \A i \in (DotAt(raw) + 1)..Len(raw) : raw[i] = "0"

\* C6: coercing an INTEGER column never fails; afterwards every cell is an
\* integer or NULL, and a field that is not a whole number is NULL.
IntegerCoercionNeverFails ==
    \A c \in DOMAIN csv \cap DOMAIN schema_info :
        (schema_info[c] \in IntegerFamily /\ StageDone(3)) =>
            /\ stages[3].ok
            /\ \A i \in 1..Len(df[c]) :
                /\ df[c][i].kind \in {"int", "null"}
                /\ ~IsWholeNumberField(csv[c][i]) => df[c][i] = NULL

\* C7: after the conversion a JSON column holds NULL where the field was
\* missing and the JSON encoding of the original value elsewhere.
JsonMissingIsNull ==
    \A c \in DOMAIN csv \cap DOMAIN schema_info :
        (schema_info[c] \in JsonFamily /\ StageOk(3)) =>
            \A i \in 1..Len(df[c]) :
                df[c][i] = IF IsMissing(csv[c][i]) THEN NULL ELSE JsonDumps(Original[c][i])

ExpectedText(x) ==
    CASE x.kind = "float" -> IF EndsWith(x.text, T_dot0)
                             THEN SubSeq(x.text, 1, Len(x.text) - 2) ELSE x.text
      [] x.kind = "int" -> IntToText(x.num)
      [] OTHER -> x.text

\* C8: right after the conversion a text column holds the single space where
\* the field was missing and the value's text elsewhere.
TextMissingIsSpace ==
    \A c \in DOMAIN csv \cap DOMAIN schema_info :
        (schema_info[c] \in TextFamily /\ pc = "parse") =>
            \A i \in 1..Len(df[c]) :
                df[c][i] = IF IsMissing(csv[c][i]) THEN StrCell(T_space)
                           ELSE StrCell(ExpectedText(Original[c][i]))

\* C9: after parse_datetime_columns every cell of a named column is NULL or a
\* UTC instant: the instant the field spells in the layout MM-DD-YYYY
\* HH:MM:SS, NULL when the field is not in that layout.
DatetimeFixedLayoutOrNull ==
    StageOk(4) =>
        \A k \in 1..Len(DatetimeColumns) : \A i \in 1..Len(df[DatetimeColumns[k]]) :
            LET raw == csv[DatetimeColumns[k]][i] IN
            df[DatetimeColumns[k]][i] =
                IF MatchesFixed(raw) THEN FixedInstant(raw) ELSE NULL

====
